---------------------------- MODULE Spec2Model ----------------------------
(***************************************************************************)
(* Model of src/lolopal.py: EnhancedWindrawWinScraper.                     *)
(*                                                                         *)
(* Text is a sequence of tokens.  " " is one whitespace character, "x" one *)
(* ordinary character, "&" a bare ampersand, and "nbsp;" / "amp;" are the  *)
(* literal character runs of that spelling, so that <<"&", "nbsp;">> is    *)
(* the entity &nbsp; and <<"&", "amp;">> the entity &amp;.  The result     *)
(* None of text_content() / get_attribute() is NoText.                     *)
(*                                                                         *)
(* A match container (.wttr) is a record of what its DOM exposes to the    *)
(* selectors of extract_match_data, together with the set of DOM calls     *)
(* that raise when they are made on it (throws).  A token other than the   *)
(* five above is an ordinary character too.                                *)
(***************************************************************************)
EXTENDS Integers, Sequences, FiniteSets, TLC

\* ------------------------------------------------------------------ bounds
MaxNames == 2        \* .wtmoblnk elements of a generated container
MaxExtra == 1        \* odds anchors outside the three category sections
MaxMarkers == 5      \* form markers on one side of a generated container
MaxFaults == 1       \* DOM calls that raise on one generated container
MaxContainers == 2   \* .wttr containers of a page in a run
MaxText == 4         \* tokens of a text given to clean_text

\* ------------------------------------------------------- program constants
max_retries == 3
base_delay == 10
JitterMin == 2
JitterMax == 5
ChallengeCooldown == 15
TierAMin == 7
MatchOddsMin == 3
OverUnderMin == 2
BttsMin == 2
FormSide == 5
FormBoth == 10

\* -------------------------------------------------------------------- text
NoText == <<"<None>">>

Truthy(t) == t # NoText /\ t # <<>>

RECURSIVE LStrip(_)
LStrip(s) == IF s # <<>> /\ Head(s) = " " THEN LStrip(Tail(s)) ELSE s

RECURSIVE RStrip(_)
RStrip(s) ==
    IF s # <<>> /\ s[Len(s)] = " " THEN RStrip(SubSeq(s, 1, Len(s) - 1)) ELSE s

Strip(s) == RStrip(LStrip(s))

\* re.sub(r'\s+', ' ', s): every run of whitespace becomes one blank
RECURSIVE CollapseSpaces(_)
CollapseSpaces(s) ==
    IF s = <<>> THEN <<>>
    ELSE IF Head(s) = " "
         THEN <<" ">> \o CollapseSpaces(LStrip(s))
         ELSE <<Head(s)>> \o CollapseSpaces(Tail(s))

\* s.replace('&nbsp;', ''): left to right, the result is not scanned again
RECURSIVE ReplaceNbsp(_)
ReplaceNbsp(s) ==
    IF s = <<>> THEN <<>>
    ELSE IF Len(s) >= 2 /\ s[1] = "&" /\ s[2] = "nbsp;"
         THEN ReplaceNbsp(SubSeq(s, 3, Len(s)))
         ELSE <<Head(s)>> \o ReplaceNbsp(Tail(s))

\* s.replace('&amp;', '&')
RECURSIVE ReplaceAmp(_)
ReplaceAmp(s) ==
    IF s = <<>> THEN <<>>
    ELSE IF Len(s) >= 2 /\ s[1] = "&" /\ s[2] = "amp;"
         THEN <<"&">> \o ReplaceAmp(SubSeq(s, 3, Len(s)))
         ELSE <<Head(s)>> \o ReplaceAmp(Tail(s))

clean_text(text) ==
    IF ~Truthy(text) THEN <<>>
    ELSE ReplaceAmp(ReplaceNbsp(CollapseSpaces(Strip(text))))

\* ------------------------------------------------------------------ league
league_patterns ==
    << "finland-ykkonen", "finland-kakkonen", "uzbekistan-super-league",
       "club-world-cup", "ireland-premier-division", "england-premier-league",
       "spain-la-liga", "germany-bundesliga", "italy-serie-a", "france-ligue-1" >>

LeagueTitle ==
    << "Finland Ykkonen", "Finland Kakkonen", "Uzbekistan Super League",
       "Club World Cup", "Ireland Premier Division", "England Premier League",
       "Spain La Liga", "Germany Bundesliga", "Italy Serie A", "France Ligue 1" >>

\* A URL is a sequence of path fragments; a pattern is found in it when one
\* of its fragments is the pattern.  The first pattern found wins.
extract_league_from_fixture(url) ==
    IF ~Truthy(url) THEN ""
    ELSE LET hits == {k \in 1..Len(league_patterns) :
                        \E j \in 1..Len(url) : url[j] = league_patterns[k]}
         IN IF hits = {} THEN ""
            ELSE LeagueTitle[CHOOSE k \in hits : \A m \in hits : k <= m]


\* ------------------------------------------------------- extract_match_data
\* Optional[Dict]: None is the empty sequence, a record r is <<r>>.
None == <<>>

EmptyMatchData ==
    [ teams      |-> [home |-> <<>>, away |-> <<>>],
      fixture    |-> <<>>,
      league     |-> "",
      prediction |-> [type |-> <<>>, stake |-> <<>>, score |-> <<>>],
      odds       |-> [ match_odds |-> [home |-> <<>>, draw |-> <<>>, away |-> <<>>],
                       over_under |-> [over |-> <<>>, under |-> <<>>],
                       btts       |-> [yes |-> <<>>, no |-> <<>>] ],
      form       |-> [home |-> <<>>, away |-> <<>>],
      has_odds   |-> FALSE,
      match_url  |-> <<>> ]

\* The DOM call <<selector, call, k>> on container c raises.
Raises(c, site) == site \in c.throws

\* '.wtocell a' in document order: the three category sections, then the
\* anchors outside them.
AllOdds(c) == c.mo \o c.ou \o c.bt \o c.extra

\* The form selector's flattened result: left-side markers, then right-side.
AllForm(c) == c.formL \o c.formR

\* Team names: [status, home, away]; status is "ok", "none" (return None)
\* or "raise" (an exception that the outer handler turns into None).
ExtractTeams(c) ==
    LET no(st) == [status |-> st, home |-> <<>>, away |-> <<>>]
    IN IF Raises(c, <<"wtmoblnk", "count", 0>>) THEN no("raise")
       ELSE IF Len(c.names) >= 2
            THEN IF Raises(c, <<"wtmoblnk", "text", 0>>)
                    \/ Raises(c, <<"wtmoblnk", "text", 1>>)
                 THEN no("raise")
                 ELSE IF Truthy(c.names[1]) /\ Truthy(c.names[2])
                      THEN [status |-> "ok",
                            home   |-> clean_text(c.names[1]),
                            away   |-> clean_text(c.names[2])]
                      ELSE no("none")
            ELSE no("none")

\* One of the fixture / stake / prediction / score lookups raises.  None of
\* them has a handler of its own.
ScalarRaises(c) ==
    \/ Raises(c, <<"wtdesklnk", "count", 0>>)
    \/ /\ Len(c.fixture) > 0
       /\ \/ Raises(c, <<"wtdesklnk", "text", 0>>)
          \/ Raises(c, <<"wtdesklnk", "href", 0>>)
    \/ Raises(c, <<"wtstk", "count", 0>>)
    \/ Len(c.stake) > 0 /\ Raises(c, <<"wtstk", "text", 0>>)
    \/ Raises(c, <<"wtprd", "count", 0>>)
    \/ Len(c.ptype) > 0 /\ Raises(c, <<"wtprd", "text", 0>>)
    \/ Raises(c, <<"wtsc", "count", 0>>)
    \/ Len(c.score) > 0 /\ Raises(c, <<"wtsc", "text", 0>>)

\* The text of the first element of els, cleaned, when there is one with text.
ScalarText(els) ==
    IF Len(els) > 0 /\ Truthy(els[1]) THEN clean_text(els[1]) ELSE <<>>

ExtractScalars(c, md) ==
    LET hasFix == Len(c.fixture) > 0
        url    == IF hasFix /\ Truthy(c.fixture[1].href) THEN c.fixture[1].href ELSE <<>>
    IN [md EXCEPT
          !.fixture    = IF hasFix /\ Truthy(c.fixture[1].text)
                         THEN clean_text(c.fixture[1].text) ELSE <<>>,
          !.match_url  = url,
          !.league     = extract_league_from_fixture(url),
          !.prediction = [type  |-> ScalarText(c.ptype),
                          stake |-> ScalarText(c.stake),
                          score |-> ScalarText(c.score)]]

\* `if t: field = clean_text(t)`: the field keeps its empty default otherwise.
SetIfText(t) == IF Truthy(t) THEN clean_text(t) ELSE <<>>

\* Tier A, one try block per category: the cells are all read before any
\* field is assigned, so a read that raises leaves the category as it was.
TierA(c, odds) ==
    LET all == AllOdds(c)
        ok(ks) == \A k \in ks : ~Raises(c, <<"wtocell", "text", k>>)
    IN [ match_odds |-> IF ok({0, 1, 2})
                        THEN [home |-> SetIfText(all[1]),
                              draw |-> SetIfText(all[2]),
                              away |-> SetIfText(all[3])]
                        ELSE odds.match_odds,
         over_under |-> IF ok({3, 4})
                        THEN [over  |-> SetIfText(all[4]),
                              under |-> SetIfText(all[5])]
                        ELSE odds.over_under,
         btts       |-> IF ok({5, 6})
                        THEN [yes |-> SetIfText(all[6]),
                              no  |-> SetIfText(all[7])]
                        ELSE odds.btts ]

\* Tier B, one category: [raised, met, vals].  Each field is assigned as soon
\* as its cell is read, so a read that raises keeps the fields before it.
TierBCategory(c, sel, cells, need) ==
    IF Raises(c, <<sel, "count", 0>>)
    THEN [raised |-> TRUE, met |-> FALSE, vals |-> [k \in 1..need |-> <<>>]]
    ELSE IF Len(cells) >= need
         THEN LET bad   == {k \in 0..(need - 1) : Raises(c, <<sel, "text", k>>)}
                  first == IF bad = {} THEN need
                           ELSE CHOOSE k \in bad : \A m \in bad : k <= m
              IN [raised |-> bad # {},
                  met    |-> TRUE,
                  vals   |-> [k \in 1..need |->
                                IF k - 1 < first THEN clean_text(cells[k]) ELSE <<>>]]
         ELSE [raised |-> FALSE, met |-> FALSE, vals |-> [k \in 1..need |-> <<>>]]

\* Tier B: the three categories share one try block, and has_odds is set at
\* its end.  [odds, has_odds].
TierB(c, odds) ==
    LET skip(need) == [raised |-> TRUE, met |-> FALSE, vals |-> [k \in 1..need |-> <<>>]]
        mo == TierBCategory(c, "wtmo", c.mo, MatchOddsMin)
        ou == IF mo.raised THEN skip(OverUnderMin)
              ELSE TierBCategory(c, "wtou", c.ou, OverUnderMin)
        bt == IF ou.raised THEN skip(BttsMin)
              ELSE TierBCategory(c, "wtbt", c.bt, BttsMin)
    IN [ odds |-> [ match_odds |-> [home |-> mo.vals[1], draw |-> mo.vals[2],
                                    away |-> mo.vals[3]],
                    over_under |-> [over |-> ou.vals[1], under |-> ou.vals[2]],
                    btts       |-> [yes |-> bt.vals[1], no |-> bt.vals[2]] ],
         has_odds |-> ~bt.raised /\ (mo.met \/ ou.met \/ bt.met) ]

\* ExtractOdds with `>` for `>=`: seven anchors go to Tier B.
ExtractOdds_StrictlyMore(c, odds) ==
    IF Len(AllOdds(c)) > TierAMin
    THEN [odds |-> TierA(c, odds), has_odds |-> TRUE]
    ELSE TierB(c, odds)

\* [odds, has_odds] of a container whose '.wtocell a' count could be read.
ExtractOdds(c, odds) ==
    IF Len(AllOdds(c)) >= TierAMin
    THEN [odds |-> TierA(c, odds), has_odds |-> TRUE]
    ELSE TierB(c, odds)

\* FormSymbol taking a class that names no outcome for a loss.
FormSymbol_UnknownIsLoss(cls) ==
    IF "last5w" \in cls THEN <<"W">>
    ELSE IF "last5d" \in cls THEN <<"D">>
    ELSE <<"L">>

\* The outcome symbol of a marker's class attribute (a set of class names).
FormSymbol(cls) ==
    IF "last5w" \in cls THEN <<"W">>
    ELSE IF "last5d" \in cls THEN <<"D">>
    ELSE IF "last5l" \in cls THEN <<"L">>
    ELSE <<>>

\* The loop over flat[from..to] (0-based): [raised, list].
RECURSIVE ReadForm(_, _, _, _)
ReadForm(c, flat, from, to) ==
    IF from > to THEN [raised |-> FALSE, list |-> <<>>]
    ELSE IF Raises(c, <<"last5", "class", from>>)
         THEN [raised |-> TRUE, list |-> <<>>]
         ELSE LET rest == ReadForm(c, flat, from + 1, to)
              IN [raised |-> rest.raised,
                  list   |-> FormSymbol(flat[from + 1]) \o rest.list]

Min(a, b) == IF a <= b THEN a ELSE b

ExtractForm(c) ==
    LET flat == AllForm(c)
        n    == Len(flat)
        none == [raised |-> FALSE, list |-> <<>>]
    IN IF Raises(c, <<"last5", "count", 0>>) THEN [home |-> <<>>, away |-> <<>>]
       ELSE LET h == IF n >= FormSide
                     THEN ReadForm(c, flat, 0, Min(FormSide, n) - 1) ELSE none
                a == IF ~h.raised /\ n >= FormBoth
                     THEN ReadForm(c, flat, FormSide, Min(FormBoth, n) - 1) ELSE none
            IN [home |-> h.list, away |-> a.list]

\* extract_match_data without the check of the cleaned names before it returns.
extract_match_data_NoFinalCheck(c) ==
    LET t == ExtractTeams(c)
    IN IF t.status # "ok" THEN None
       ELSE IF ScalarRaises(c) \/ Raises(c, <<"wtocell", "count", 0>>) THEN None
       ELSE LET md1 == ExtractScalars(c, [EmptyMatchData EXCEPT
                                            !.teams = [home |-> t.home, away |-> t.away]])
                o   == ExtractOdds(c, md1.odds)
            IN << [md1 EXCEPT !.odds = o.odds, !.has_odds = o.has_odds,
                              !.form = ExtractForm(c)] >>

extract_match_data(c) ==
    LET t == ExtractTeams(c)
    IN IF t.status # "ok" THEN None
       ELSE IF ScalarRaises(c) \/ Raises(c, <<"wtocell", "count", 0>>) THEN None
       ELSE LET md1 == ExtractScalars(c, [EmptyMatchData EXCEPT
                                            !.teams = [home |-> t.home, away |-> t.away]])
                o   == ExtractOdds(c, md1.odds)
                md2 == [md1 EXCEPT !.odds = o.odds, !.has_odds = o.has_odds,
                                   !.form = ExtractForm(c)]
            IN IF md2.teams.home # <<>> /\ md2.teams.away # <<>> THEN <<md2>> ELSE None

\* -------------------------------------------------------------- containers
Repeat(x, n) == [k \in 1..n |-> x]

\* A container with everything in place: two names, fixture link, the three
\* scalar fields, 3 + 2 + 2 odds anchors and 5 + 5 form markers.
GoodContainer ==
    [ names   |-> << <<"h">>, <<"a">> >>,
      fixture |-> << [text |-> <<"f">>, href |-> <<"u", "england-premier-league">>] >>,
      stake   |-> << <<"s">> >>,
      ptype   |-> << <<"p">> >>,
      score   |-> << <<"c">> >>,
      mo      |-> << <<"1">>, <<"2">>, <<"3">> >>,
      ou      |-> << <<"4">>, <<"5">> >>,
      bt      |-> << <<"6">>, <<"7">> >>,
      extra   |-> <<>>,
      formL   |-> Repeat({"last5w"}, 5),
      formR   |-> Repeat({"last5l"}, 5),
      throws  |-> {} ]

\* The containers a page of a run is made of.
OneNameContainer == [GoodContainer EXCEPT !.names = << <<"h">> >>]
FiveOddsContainer == [GoodContainer EXCEPT !.ou = << <<"4">> >>, !.bt = << <<"6">> >>]
ShortFormContainer == [GoodContainer EXCEPT !.formL = Repeat({"last5d"}, 3)]
BlankOddsContainer ==
    [GoodContainer EXCEPT !.mo = Repeat(NoText, 3), !.ou = Repeat(NoText, 2),
                          !.bt = Repeat(NoText, 2)]
StakeRaisesContainer == [GoodContainer EXCEPT !.throws = {<<"wtstk", "text", 0>>}]

Catalogue ==
    { GoodContainer, OneNameContainer, FiveOddsContainer, ShortFormContainer,
      BlankOddsContainer, StakeRaisesContainer }

RECURSIVE SeqsUpTo(_, _)
SeqsUpTo(S, n) ==
    IF n = 0 THEN {<<>>}
    ELSE LET prev == SeqsUpTo(S, n - 1)
         IN prev \cup {Append(q, x) : q \in {p \in prev : Len(p) = n - 1}, x \in S}

Pages == SeqsUpTo(Catalogue, MaxContainers)

\* ------------------------------------------------------------------- state
VARIABLES
    pc,          \* where run() is
    browser,     \* self.browser: "None", "open", or "closed" once close() was called
    attempt,     \* fetch_page's loop variable
    navs,        \* page.goto calls made
    sleeps,      \* backoff sleeps made: [before |-> attempt, delay |-> seconds]
    cooldowns,   \* challenge cooldowns made: [at |-> attempt, seconds |-> length]
    page,        \* the .wttr containers of the loaded DOM
    fetched,     \* fetch_page's outcome: "pending", "True", "False", "raised"
    error,       \* the message of the exception on its way to run's handler
    idx,         \* scrape_matches' loop variable
    matches,     \* scrape_matches' list
    saved,       \* what save_data(matches) returned to run: "pending", "True", "False"
    written,     \* the payloads written to today_matches.json, in order
    log,         \* the lines appended to scrape_log.txt, in order
    log_calls,   \* the calls of log_result
    cleanups,    \* the calls of cleanup
    found,       \* matches_found of the current attempt, -1 before the count returns
    save_calls,  \* the calls of save_data: the list each was given
    outcomes     \* how each attempt of fetch_page ended, as its logger reports it

vars == << pc, browser, attempt, navs, sleeps, cooldowns, page, fetched, error,
           idx, matches, saved, written, log, log_calls, cleanups, found,
           save_calls, outcomes >>

Init ==
    /\ pc = "setup_browser"
    /\ browser = "None"
    /\ attempt = 0
    /\ navs = 0
    /\ sleeps = <<>>
    /\ cooldowns = <<>>
    /\ page = <<>>
    /\ fetched = "pending"
    /\ error = ""
    /\ idx = 0
    /\ matches = <<>>
    /\ saved = "pending"
    /\ written = <<>>
    /\ log = <<>>
    /\ log_calls = <<>>
    /\ cleanups = 0
    /\ found = -1
    /\ save_calls = <<>>
    /\ outcomes = <<>>

\* ------------------------------------------------------------- setup_browser
\* setup_browser whose handler logs the error and does not re-raise it.
setup_browser_NoReraise ==
    /\ pc = "setup_browser"
    /\ \E outcome \in {"ok", "launch_raises", "context_raises"} :
          /\ browser' = IF outcome = "launch_raises" THEN "None" ELSE "open"
          /\ pc' = "initial_delay"
          /\ error' = IF outcome = "ok" THEN "" ELSE "browser setup failed"
    /\ UNCHANGED << attempt, navs, sleeps, cooldowns, page, fetched, idx, matches,
                    saved, written, log, log_calls, cleanups,
                    found, save_calls, outcomes >>

\* launch() raises (no browser), or new_context / add_init_script / new_page
\* raises (the browser is already stored), or all succeed.
setup_browser ==
    /\ pc = "setup_browser"
    /\ \E outcome \in {"ok", "launch_raises", "context_raises"} :
          /\ browser' = IF outcome = "launch_raises" THEN "None" ELSE "open"
          /\ pc' = IF outcome = "ok" THEN "initial_delay" ELSE "except"
          /\ error' = IF outcome = "ok" THEN "" ELSE "browser setup failed"
    /\ UNCHANGED << attempt, navs, sleeps, cooldowns, page, fetched, idx, matches,
                    saved, written, log, log_calls, cleanups,
                    found, save_calls, outcomes >>

initial_delay ==
    /\ pc = "initial_delay"
    /\ pc' = "attempt"
    /\ UNCHANGED << browser, attempt, navs, sleeps, cooldowns, page, fetched, error,
                    idx, matches, saved, written, log, log_calls, cleanups,
                    found, save_calls, outcomes >>

\* ---------------------------------------------------------------- fetch_page
\* The top of the loop body: the backoff sleep of every attempt but the first.
\* random.uniform(2, 5): the two ends of the range stand for it.
Jitters == {JitterMin, JitterMax}

\* Delay without the doubling.
Delay_Flat(a, jitter) == base_delay + jitter

Delay(a, jitter) == base_delay * (2 ^ (a - 1)) + jitter

attempt_start ==
    /\ pc = "attempt"
    /\ IF attempt > 0
       THEN \E jitter \in Jitters :
               sleeps' = Append(sleeps, [before |-> attempt, delay |-> Delay(attempt, jitter)])
       ELSE sleeps' = sleeps
    /\ found' = -1
    /\ pc' = "goto"
    /\ UNCHANGED << browser, attempt, navs, cooldowns, page, fetched, error, idx,
                    matches, saved, written, log, log_calls, cleanups,
                    save_calls, outcomes >>

\* Continue that starts the attempt again without counting it.
Continue_SameAttempt ==
    /\ pc' = "attempt"
    /\ UNCHANGED << attempt, fetched, error >>

\* `continue`, or the end of a handler that swallowed the exception: back to
\* the loop header, which starts the next attempt or, when none is left,
\* leaves the loop for `return False`.
Continue ==
    IF attempt + 1 < max_retries
    THEN /\ attempt' = attempt + 1
         /\ pc' = "attempt"
         /\ UNCHANGED << fetched, error >>
    ELSE /\ fetched' = "False"
         /\ pc' = "scrape"
         /\ UNCHANGED << attempt, error >>

\* fetch_page raises msg to run's handler.
Raise(msg) ==
    /\ fetched' = "raised"
    /\ error' = msg
    /\ pc' = "except"
    /\ UNCHANGED attempt

\* Caught with a timeout that is fatal on whatever attempt it happens.
Caught_TimeoutFatal(kind) ==
    IF kind = "timeout" \/ attempt = max_retries - 1
    THEN Raise(IF kind = "timeout" THEN "Timeout after 3 attempts" ELSE "error")
    ELSE Continue

\* Caught without the re-raise on the last attempt: always swallowed.
Caught_AlwaysSwallow(kind) == Continue

\* The two except clauses of the loop body: swallowed unless this is the last
\* attempt.  The loop then goes on to the next attempt.
Caught(kind) ==
    IF attempt = max_retries - 1
    THEN Raise(IF kind = "timeout" THEN "Timeout after 3 attempts" ELSE "error")
    ELSE Continue

\* BadStatus that is fatal on whatever attempt it happens.
BadStatus_NeverRetry(msg) == Raise(msg)

\* BadStatus without its last-attempt branch: a bad status always retries.
BadStatus_AlwaysRetry(msg) ==
    /\ attempt' = attempt + 1
    /\ pc' = "attempt"
    /\ UNCHANGED << fetched, error >>

\* `raise Exception(msg)` inside the try block is caught by `except Exception`,
\* which re-raises it on the last attempt.
BadStatus(msg) ==
    IF attempt < max_retries - 1 THEN Continue ELSE Raise(msg)

goto ==
    /\ pc = "goto"
    /\ navs' = navs + 1
    /\ \E outcome \in {"timeout", "error", "no_response", "403", "500", "200"} :
          /\ CASE outcome \in {"timeout", "error"} -> Caught(outcome)
               [] outcome = "403" -> BadStatus("403 Forbidden after 3 attempts")
               [] outcome = "500" -> BadStatus("HTTP 500 after 3 attempts")
               [] OTHER -> /\ pc' = "wait_dom"
                           /\ UNCHANGED << attempt, fetched, error >>
          /\ outcomes' = IF outcome \in {"no_response", "200"} THEN outcomes
                         ELSE Append(outcomes, outcome)
    /\ UNCHANGED << browser, sleeps, cooldowns, page, idx, matches, saved, written,
                    log, log_calls, cleanups, found, save_calls >>

wait_dom ==
    /\ pc = "wait_dom"
    /\ \E outcome \in {"timeout", "error", "ok"} :
          /\ IF outcome = "ok"
             THEN pc' = "challenge" /\ UNCHANGED << attempt, fetched, error >>
             ELSE Caught(outcome)
          /\ outcomes' = IF outcome = "ok" THEN outcomes ELSE Append(outcomes, outcome)
    /\ UNCHANGED << browser, navs, sleeps, cooldowns, page, idx, matches, saved,
                    written, log, log_calls, cleanups,
                    found, save_calls >>

\* locator('text=Checking your browser').count()
challenge_check ==
    /\ pc = "challenge"
    /\ \E outcome \in {"error", "present", "absent"} :
          /\ CASE outcome = "error" -> Caught(outcome)
               [] outcome = "present" -> pc' = "cooldown" /\ UNCHANGED << attempt, fetched, error >>
               [] OTHER -> pc' = "content" /\ UNCHANGED << attempt, fetched, error >>
          /\ outcomes' = IF outcome = "error" THEN Append(outcomes, outcome) ELSE outcomes
    /\ UNCHANGED << browser, navs, sleeps, cooldowns, page, idx, matches, saved,
                    written, log, log_calls, cleanups,
                    found, save_calls >>

\* The cooldown followed at once by the container count, without the wait for
\* the network to go idle.
challenge_cooldown_NoWait ==
    /\ pc = "cooldown"
    /\ cooldowns' = Append(cooldowns, [at |-> attempt, seconds |-> ChallengeCooldown])
    /\ pc' = "content"
    /\ UNCHANGED << browser, attempt, navs, sleeps, page, fetched, error, idx,
                    matches, saved, written, log, log_calls, cleanups,
                    found, save_calls, outcomes >>

\* asyncio.sleep(15)
challenge_cooldown ==
    /\ pc = "cooldown"
    /\ cooldowns' = Append(cooldowns, [at |-> attempt, seconds |-> ChallengeCooldown])
    /\ pc' = "wait_idle"
    /\ UNCHANGED << browser, attempt, navs, sleeps, page, fetched, error, idx,
                    matches, saved, written, log, log_calls, cleanups,
                    found, save_calls, outcomes >>

wait_idle ==
    /\ pc = "wait_idle"
    /\ \E outcome \in {"timeout", "error", "ok"} :
          /\ IF outcome = "ok"
             THEN pc' = "content" /\ UNCHANGED << attempt, fetched, error >>
             ELSE Caught(outcome)
          /\ outcomes' = IF outcome = "ok" THEN outcomes ELSE Append(outcomes, outcome)
    /\ UNCHANGED << browser, navs, sleeps, cooldowns, page, idx, matches, saved,
                    written, log, log_calls, cleanups,
                    found, save_calls >>

\* content_check with zero containers on the last attempt raising instead of
\* returning True.
content_check_ZeroFails ==
    /\ pc = "content"
    /\ \/ /\ Caught("error")
          /\ page' = <<>>
          /\ found' = -1
          /\ outcomes' = Append(outcomes, "error")
       \/ \E dom \in Pages :
             /\ page' = dom
             /\ found' = Len(dom)
             /\ outcomes' = Append(outcomes, IF Len(dom) = 0 THEN "zero" ELSE "loaded")
             /\ IF Len(dom) = 0
                THEN BadStatus("No matches found after all attempts")
                ELSE /\ fetched' = "True"
                     /\ pc' = "scrape"
                     /\ UNCHANGED << attempt, error >>
    /\ UNCHANGED << browser, navs, sleeps, cooldowns, idx, matches, saved, written,
                    log, log_calls, cleanups, save_calls >>

\* locator('.wttr').count(): the containers of the DOM as this first query
\* finds it; the DOM stays as it is from here on.
content_check ==
    /\ pc = "content"
    /\ \/ /\ Caught("error")
          /\ page' = <<>>
          /\ found' = -1
          /\ outcomes' = Append(outcomes, "error")
       \/ \E dom \in Pages :
             /\ page' = dom
             /\ found' = Len(dom)
             /\ outcomes' = Append(outcomes, IF Len(dom) = 0 THEN "zero" ELSE "loaded")
             /\ IF Len(dom) = 0 /\ attempt < max_retries - 1
                THEN Continue
                ELSE /\ fetched' = "True"
                     /\ pc' = "scrape"
                     /\ UNCHANGED << attempt, error >>
    /\ UNCHANGED << browser, navs, sleeps, cooldowns, idx, matches, saved, written,
                    log, log_calls, cleanups, save_calls >>

\* ------------------------------------------------------------ scrape_matches
\* After fetch_page returned: `if not success: return []`, else the count of
\* the containers, which may raise (the handler keeps the empty list).
scrape_count ==
    /\ pc = "scrape"
    /\ idx' = 0
    /\ matches' = <<>>
    /\ IF fetched # "True"
       THEN pc' = "save"
       ELSE \E outcome \in {"error", "ok"} :
               pc' = IF outcome = "ok" /\ Len(page) > 0 THEN "extract" ELSE "save"
    /\ UNCHANGED << browser, attempt, navs, sleeps, cooldowns, page, fetched, error,
                    saved, written, log, log_calls, cleanups,
                    found, save_calls, outcomes >>

\* extract_next leaving the loop at the first container that gives no record.
extract_next_StopAtNone ==
    /\ pc = "extract"
    /\ idx < Len(page)
    /\ matches' = matches \o extract_match_data(page[idx + 1])
    /\ idx' = idx + 1
    /\ pc' = IF idx + 1 < Len(page) /\ extract_match_data(page[idx + 1]) # None
             THEN "extract" ELSE "save"
    /\ UNCHANGED << browser, attempt, navs, sleeps, cooldowns, page, fetched, error,
                    saved, written, log, log_calls, cleanups,
                    found, save_calls, outcomes >>

\* One iteration of the loop over the containers.
extract_next ==
    /\ pc = "extract"
    /\ idx < Len(page)
    /\ matches' = matches \o extract_match_data(page[idx + 1])
    /\ idx' = idx + 1
    /\ pc' = IF idx + 1 < Len(page) THEN "extract" ELSE "save"
    /\ UNCHANGED << browser, attempt, navs, sleeps, cooldowns, page, fetched, error,
                    saved, written, log, log_calls, cleanups,
                    found, save_calls, outcomes >>

\* ----------------------------------------------------------------- save_data
\* Summary counting every record as one with odds.
Summary_AllWithOdds(ms) ==
    [ total_matches        |-> Len(ms),
      matches_with_odds    |-> Len(ms),
      matches_without_odds |-> 0,
      matches              |-> ms ]

\* summary_data without its timestamp and source_url.
Summary(ms) ==
    [ total_matches        |-> Len(ms),
      matches_with_odds    |-> Cardinality({k \in 1..Len(ms) : ms[k].has_odds}),
      matches_without_odds |-> Cardinality({k \in 1..Len(ms) : ~ms[k].has_odds}),
      matches              |-> ms ]

\* run's `success = self.save_data(matches)`.  A write that fails leaves no
\* payload and makes save_data return False.
save_data ==
    /\ pc = "save"
    /\ \E ok \in BOOLEAN :
          /\ written' = IF ok THEN Append(written, Summary(matches)) ELSE written
          /\ saved' = IF ok THEN "True" ELSE "False"
    /\ save_calls' = Append(save_calls, matches)
    /\ pc' = "log"
    /\ UNCHANGED << browser, attempt, navs, sleeps, cooldowns, page, fetched, error,
                    idx, matches, log, log_calls, cleanups,
                    found, outcomes >>

\* ---------------------------------------------------------------- log_result
SuccessLine(n) == [success |-> TRUE, count |-> n, reason |-> ""]
FailureLine(msg) == [success |-> FALSE, count |-> 0, reason |-> msg]

\* OutcomeLine chosen by the records alone, whatever save_data returned.
OutcomeLine_IgnoresSave ==
    IF matches # <<>> THEN SuccessLine(Len(matches))
    ELSE FailureLine("No matches found or extracted")

\* The line run asks log_result for after save_data.
OutcomeLine ==
    IF saved = "True" /\ matches # <<>> THEN SuccessLine(Len(matches))
    ELSE IF saved = "True" THEN FailureLine("No matches found or extracted")
    ELSE FailureLine("Failed to save data to file")

\* log_outcome followed by an exception that reaches run's handler.
log_outcome_ThenHandler ==
    /\ pc = "log"
    /\ log_calls' = Append(log_calls, OutcomeLine)
    /\ \E ok \in BOOLEAN : log' = IF ok THEN Append(log, OutcomeLine) ELSE log
    /\ pc' = "except"
    /\ error' = "late"
    /\ UNCHANGED << browser, attempt, navs, sleeps, cooldowns, page, fetched,
                    idx, matches, saved, written, cleanups,
                    found, save_calls, outcomes >>

\* log_outcome asking for a success line whatever save_data returned.
log_outcome_AlwaysSuccess ==
    /\ pc = "log"
    /\ log_calls' = Append(log_calls, SuccessLine(Len(matches)))
    /\ \E ok \in BOOLEAN :
          log' = IF ok THEN Append(log, SuccessLine(Len(matches))) ELSE log
    /\ pc' = "cleanup"
    /\ UNCHANGED << browser, attempt, navs, sleeps, cooldowns, page, fetched, error,
                    idx, matches, saved, written, cleanups,
                    found, save_calls, outcomes >>

\* log_result appends the line, unless the append raises (handled inside).
log_outcome ==
    /\ pc = "log"
    /\ log_calls' = Append(log_calls, OutcomeLine)
    /\ \E ok \in BOOLEAN : log' = IF ok THEN Append(log, OutcomeLine) ELSE log
    /\ pc' = "cleanup"
    /\ UNCHANGED << browser, attempt, navs, sleeps, cooldowns, page, fetched, error,
                    idx, matches, saved, written, cleanups,
                    found, save_calls, outcomes >>

\* ------------------------------------------------------------- run's handler
ErrorLine == FailureLine(<<"Unexpected error", error>>)

\* handle_error without the save of the empty payload.
handle_error_NoSave ==
    /\ pc = "except"
    /\ log_calls' = Append(log_calls, ErrorLine)
    /\ \E ok \in BOOLEAN : log' = IF ok THEN Append(log, ErrorLine) ELSE log
    /\ pc' = "cleanup"
    /\ UNCHANGED << browser, attempt, navs, sleeps, cooldowns, page, fetched, error,
                    idx, matches, saved, written, cleanups, found, save_calls, outcomes >>

\* except Exception: log the failure, then try to save an empty payload.
handle_error ==
    /\ pc = "except"
    /\ log_calls' = Append(log_calls, ErrorLine)
    /\ \E ok \in BOOLEAN : log' = IF ok THEN Append(log, ErrorLine) ELSE log
    /\ \E ok \in BOOLEAN : written' = IF ok THEN Append(written, Summary(<<>>)) ELSE written
    /\ save_calls' = Append(save_calls, <<>>)
    /\ pc' = "cleanup"
    /\ UNCHANGED << browser, attempt, navs, sleeps, cooldowns, page, fetched, error,
                    idx, matches, saved, cleanups,
                    found, outcomes >>

\* ------------------------------------------------------------------- cleanup
\* cleanup without the close() of the browser.
cleanup_NoClose ==
    /\ pc = "cleanup"
    /\ cleanups' = cleanups + 1
    /\ pc' = "done"
    /\ UNCHANGED << browser, attempt, navs, sleeps, cooldowns, page, fetched, error,
                    idx, matches, saved, written, log, log_calls, found, save_calls, outcomes >>

\* finally: cleanup(), which calls close() on the browser if there is one.
cleanup ==
    /\ pc = "cleanup"
    /\ cleanups' = cleanups + 1
    /\ browser' = IF browser = "open" THEN "closed" ELSE browser
    /\ pc' = "done"
    /\ UNCHANGED << attempt, navs, sleeps, cooldowns, page, fetched, error, idx,
                    matches, saved, written, log, log_calls,
                    found, save_calls, outcomes >>

\* ----------------------------------------------------------------------- run
Next ==
    \/ setup_browser
    \/ initial_delay
    \/ attempt_start
    \/ goto
    \/ wait_dom
    \/ challenge_check
    \/ challenge_cooldown
    \/ wait_idle
    \/ content_check
    \/ scrape_count
    \/ extract_next
    \/ save_data
    \/ log_outcome
    \/ handle_error
    \/ cleanup

Spec == Init /\ [][Next]_vars

\* ------------------------------------------- containers for the extractor
\* The sets of at most n of the DOM calls S.
RECURSIVE FaultSets(_, _)
FaultSets(S, n) ==
    IF n = 0 THEN {{}}
    ELSE LET prev == FaultSets(S, n - 1)
         IN prev \cup {F \cup {x} : F \in prev, x \in S}

IdentitySites == {<<"wtmoblnk", "count", 0>>, <<"wtmoblnk", "text", 0>>,
                  <<"wtmoblnk", "text", 1>>}

ScalarSites ==
    {<<"wtdesklnk", "count", 0>>, <<"wtdesklnk", "text", 0>>, <<"wtdesklnk", "href", 0>>,
     <<"wtstk", "count", 0>>, <<"wtstk", "text", 0>>,
     <<"wtprd", "count", 0>>, <<"wtprd", "text", 0>>,
     <<"wtsc", "count", 0>>, <<"wtsc", "text", 0>>}

OddsSites ==
    {<<"wtocell", "count", 0>>} \cup {<<"wtocell", "text", k>> : k \in 0..(TierAMin - 1)}
    \cup {<<"wtmo", "count", 0>>} \cup {<<"wtmo", "text", k>> : k \in 0..(MatchOddsMin - 1)}
    \cup {<<"wtou", "count", 0>>} \cup {<<"wtou", "text", k>> : k \in 0..(OverUnderMin - 1)}
    \cup {<<"wtbt", "count", 0>>} \cup {<<"wtbt", "text", k>> : k \in 0..(BttsMin - 1)}

FormSites ==
    {<<"last5", "count", 0>>} \cup {<<"last5", "class", k>> : k \in 0..(FormBoth - 1)}

NameTexts == {NoText, <<>>, <<" ">>, <<"&", "nbsp;">>, <<" ", "h", " ">>}

\* Container b with names of every kind.
IdentityContainers(b) ==
    { [b EXCEPT !.names = ns, !.throws = F] :
        ns \in SeqsUpTo(NameTexts, MaxNames), F \in FaultSets(IdentitySites, MaxFaults) }

OneOrNone(S) == {<<>>} \cup {<<x>> : x \in S}

\* Container b with scalar fields of every kind.
ScalarContainers(b) ==
    { [b EXCEPT !.fixture = fx, !.stake = sc[1], !.ptype = sc[2], !.score = sc[3]] :
        fx \in OneOrNone([text : {NoText, <<"f">>},
                          href : {NoText, <<"u">>, <<"u", "spain-la-liga">>}]),
        sc \in [1..3 -> OneOrNone({NoText, <<" ", "s">>})] }

\* Container b, with and without its scalar elements, and scalar lookups that raise.
ScalarFaultContainers(b) ==
    { [c EXCEPT !.throws = F] :
        c \in {b, [b EXCEPT !.fixture = <<>>, !.stake = <<>>, !.ptype = <<>>,
                            !.score = <<>>]},
        F \in FaultSets(ScalarSites, MaxFaults) }

Digit == <<"1", "2", "3", "4", "5", "6", "7", "8", "9">>

\* The cells of a section: cell k has no text, blank text, or a text of its own.
Cells(tag, n, kinds) ==
    [k \in 1..n |-> CASE kinds[k] = "none"  -> NoText
                      [] kinds[k] = "blank" -> <<" ">>
                      [] OTHER              -> <<tag, Digit[k]>>]

CellSeqs(tag, max, kindSet) ==
    UNION { {Cells(tag, n, kinds) : kinds \in [1..n -> kindSet]} : n \in 0..max }

\* Container b with odds sections of every length up to their minimum, with
\* and without text, and with anchors outside the sections.
OddsContainers(b) ==
    { [b EXCEPT !.mo = m, !.ou = o, !.bt = t, !.extra = e] :
        m \in CellSeqs("m", MatchOddsMin, {"none", "blank", "text"}),
        o \in CellSeqs("o", OverUnderMin, {"none", "text"}),
        t \in CellSeqs("b", BttsMin, {"none", "text"}),
        e \in CellSeqs("e", MaxExtra, {"text"}) }

\* Container b with odds sections that are empty, one cell short or complete,
\* all cells with text, and odds lookups that raise.
OddsFaultContainers(b) ==
    { [b EXCEPT !.mo = Cells("m", m, [k \in 1..m |-> "text"]),
                !.ou = Cells("o", o, [k \in 1..o |-> "text"]),
                !.bt = Cells("b", t, [k \in 1..t |-> "text"]),
                !.extra = Cells("e", e, [k \in 1..e |-> "text"]),
                !.throws = F] :
        m \in {0, MatchOddsMin - 1, MatchOddsMin},
        o \in {0, OverUnderMin - 1, OverUnderMin},
        t \in {0, BttsMin - 1, BttsMin},
        e \in 0..MaxExtra, F \in FaultSets(OddsSites, MaxFaults) }

\* n markers of one side: all wins, all draws, all losses, a win, a marker
\* whose class attribute names no outcome and a loss in turn, or the three
\* outcomes in turn.
Markers(n, pat) ==
    [k \in 1..n |-> CASE pat = "w" -> {"last5w"}
                      [] pat = "d" -> {"last5d"}
                      [] pat = "l" -> {"last5l"}
                      [] pat = "wxl" -> <<{"last5w"}, {"last5"}, {"last5l"}>>[((k - 1) % 3) + 1]
                      [] OTHER -> {<<"last5w", "last5d", "last5l">>[((k - 1) % 3) + 1], "last5"}]

MarkerSeqs(pats) == {Markers(n, pat) : n \in 0..MaxMarkers, pat \in pats}

\* Container b with form markers of every number on either side.
FormContainers(b) ==
    { [b EXCEPT !.formL = l, !.formR = r] :
        l \in MarkerSeqs({"w", "d", "l", "wdl"}), r \in MarkerSeqs({"w", "d", "l", "wdl"}) }

\* The same, with form lookups that raise.
FormFaultContainers(b) ==
    { [b EXCEPT !.formL = l, !.formR = r, !.throws = F] :
        l \in MarkerSeqs({"wdl"}), r \in MarkerSeqs({"l"}),
        F \in FaultSets(FormSites, MaxFaults) }

\* The same, with markers whose class attribute names no outcome.
FormOddContainers(b) ==
    { [b EXCEPT !.formL = l, !.formR = r] :
        l \in MarkerSeqs({"wxl"}), r \in MarkerSeqs({"wxl", "l"}) }

ExtractorContainers(b) ==
    IdentityContainers(b) \cup ScalarContainers(b) \cup ScalarFaultContainers(b)
    \cup OddsContainers(b) \cup OddsFaultContainers(b)
    \cup FormContainers(b) \cup FormFaultContainers(b) \cup FormOddContainers(b)

\* scrape_matches on a page of one container, from the moment fetch_page has
\* returned True on its first attempt.
InitScrape(pages) ==
    /\ pc = "scrape"
    /\ browser = "open"
    /\ attempt = 0
    /\ navs = 1
    /\ sleeps = <<>>
    /\ cooldowns = <<>>
    /\ page \in pages
    /\ fetched = "True"
    /\ error = ""
    /\ idx = 0
    /\ matches = <<>>
    /\ saved = "pending"
    /\ written = <<>>
    /\ log = <<>>
    /\ log_calls = <<>>
    /\ cleanups = 0
    /\ found = 1
    /\ save_calls = <<>>
    /\ outcomes = <<"loaded">>

InitExtract == InitScrape({<<c>> : c \in ExtractorContainers(GoodContainer)})

NextExtract ==
    \/ scrape_count
    \/ extract_next
    \/ save_data

SpecExtract == InitExtract /\ [][NextExtract]_vars

\* ------------------------------------------------------- clean_text's inputs
\* The characters a text is made of: whitespace, an ordinary character, and
\* the pieces of the two entities.
TextTokens == {" ", "x", "&", "nbsp;", "amp;"}

\* Container b with every text of up to MaxText tokens as its first name.
TextContainers(b) ==
    { [b EXCEPT !.names = <<t, b.names[2]>>] : t \in SeqsUpTo(TextTokens, MaxText) }

\* scrape_matches on a page whose one container has such a home name.
InitClean == InitScrape({<<c>> : c \in TextContainers(GoodContainer)})

SpecClean == InitClean /\ [][NextExtract]_vars

\* ------------------------------------------------------------ whole batches
\* A container without any odds anchor.
NoOddsContainer == [GoodContainer EXCEPT !.mo = <<>>, !.ou = <<>>, !.bt = <<>>]

\* scrape_matches on every page of up to MaxContainers containers.
InitBatch == InitScrape(SeqsUpTo(Catalogue \cup {NoOddsContainer}, MaxContainers))

SpecBatch == InitBatch /\ [][NextExtract]_vars

\* The scheduler runs the one coroutine of run() whenever it can take a step:
\* every navigation, wait and sleep ends.
FairSpec == Spec /\ WF_vars(Next)

\* ================================================================== claims
EmptyPayload ==
    [total_matches |-> 0, matches_with_odds |-> 0, matches_without_odds |-> 0,
     matches |-> <<>>]

\* ---------------------------------------------------------------------- C1
\* C1: one execution of fetch_page makes at most max_retries (3) page
\* navigations, whatever the attempts' outcomes, and none after fetch_page
\* has returned or raised.
C1_RetryBound ==
    /\ [](navs <= max_retries)
    /\ [][fetched # "pending" => navs' = navs]_vars

\* Three navigations were made and fetch_page has returned.
C1_Witness == navs = max_retries /\ fetched = "True" /\ pc = "done"

\* ---------------------------------------------------------------------- C2
\* The count of the match containers returned zero in the attempt that
\* ended fetch_page with True.
ZeroOnFinal == fetched = "True" /\ found = 0

\* Zero containers lead either to the next attempt or, on the last attempt,
\* to fetch_page returning True.
ZeroRetriesOrSucceeds ==
    found = 0 =>
       \/ pc = "attempt" /\ fetched = "pending" /\ attempt >= 1 /\ attempt < max_retries
       \/ fetched = "True" /\ attempt = max_retries - 1

\* C2 as claimed: zero containers retry on a non-final attempt and make
\* fetch_page return True on the final one; the run then has written a payload
\* with total_matches = 0 and no matches, and the failure log line that says no
\* matches were found.
C2_AsClaimed ==
    /\ ZeroRetriesOrSucceeds
    /\ (pc = "done" /\ ZeroOnFinal) =>
          /\ written = <<EmptyPayload>>
          /\ log = <<FailureLine("No matches found or extracted")>>

\* C2 amended: zero containers retry on a non-final attempt and make
\* fetch_page return True on the final one; the run then calls save_data once,
\* with the empty list, and log_result once, with a failure: when the write
\* succeeded the payload has total_matches = 0 and no matches and the line says
\* no matches were found, when it failed there is no payload and the line says
\* the save failed; the line is in the log unless its append failed.
C2_ZeroContainers ==
    /\ ZeroRetriesOrSucceeds
    /\ (pc = "done" /\ ZeroOnFinal) =>
          /\ save_calls = << <<>> >>
          /\ saved = "True" =>
                /\ written = <<EmptyPayload>>
                /\ log_calls = <<FailureLine("No matches found or extracted")>>
          /\ saved = "False" =>
                /\ written = <<>>
                /\ log_calls = <<FailureLine("Failed to save data to file")>>
          /\ saved \in {"True", "False"}
          /\ log \in {<<>>, log_calls}

\* A run that found zero containers on its last attempt, saved and logged.
C2_Witness ==
    /\ pc = "done" /\ ZeroOnFinal /\ navs = max_retries
    /\ written = <<EmptyPayload>>
    /\ log = <<FailureLine("No matches found or extracted")>>

\* ---------------------------------------------------------------------- C3
\* An exception reached run's handler: setup_browser or fetch_page raised.
Fatal == error # ""

\* C3 as claimed: a run aborted by a fatal failure goes through its handler to
\* its end, and has then written a failure log line and an empty payload.
C3_AsClaimed ==
    /\ Fatal => pc \in {"except", "cleanup", "done"}
    /\ (pc = "done" /\ Fatal) =>
          /\ Len(log) = 1 /\ ~log[1].success
          /\ written = <<EmptyPayload>>

\* C3 amended: a run aborted by a fatal failure goes through its handler to
\* its end: it calls log_result once, with a failure that names the error, and
\* save_data once, with the empty list; the line is in the log unless its
\* append failed, the empty payload is there unless its write failed, and
\* nothing else is written.
C3_FatalFailure ==
    /\ Fatal => /\ pc \in {"except", "cleanup", "done"}
                /\ fetched = "raised" \/ error = "browser setup failed"
    /\ (pc \in {"cleanup", "done"} /\ Fatal) =>
          /\ log_calls = <<FailureLine(<<"Unexpected error", error>>)>>
          /\ save_calls = << <<>> >>
          /\ log \in {<<>>, log_calls}
          /\ written \in {<<>>, <<EmptyPayload>>}

\* A run whose fetch raised on the last attempt, with its line and payload.
C3_Witness ==
    /\ pc = "done" /\ fetched = "raised" /\ navs = max_retries
    /\ Len(log) = 1 /\ written = <<EmptyPayload>>

\* ---------------------------------------------------------------------- C4
\* The positions of run() in the order it passes them.
PcOrder ==
    << "setup_browser", "initial_delay", "attempt", "goto", "wait_dom", "challenge",
       "cooldown", "wait_idle", "content", "scrape", "extract", "save", "log",
       "except", "cleanup", "done" >>

PcIndex == CHOOSE k \in 1..Len(PcOrder) : PcOrder[k] = pc

\* How far the run has come: the attempt, then the position, then the
\* container.  It is at most ProgressAtEnd.
Progress ==
    LET inFetch == PcIndex <= 9
    IN (IF inFetch THEN attempt ELSE max_retries) * (Len(PcOrder) + 1) * (MaxContainers + 2)
       + PcIndex * (MaxContainers + 2)
       + idx

ProgressAtEnd == (max_retries + 1) * (Len(PcOrder) + 1) * (MaxContainers + 2)

\* C4: on every path through run, cleanup is executed, exactly once and as the
\* last step of the run: the run is never stuck before it and every step
\* brings it closer (so it is reached after finitely many steps); a browser
\* that was acquired is closed by it and is not let go of before; nothing is
\* fetched or extracted after it.
C4_SessionReleased ==
    /\ [](cleanups <= 1 /\ (cleanups = 1 <=> pc = "done"))
    /\ [](pc = "done" => browser # "open")
    /\ [][browser = "open" => browser' \in {"open", "closed"}]_vars
    /\ [][cleanups = 1 => UNCHANGED << navs, idx, matches, page >>]_vars
    /\ [](pc \notin {"done", "extract"} => ENABLED Next)
    /\ [](pc = "extract" => idx < Len(page))      \* the guard of extract_next
    /\ [](Progress <= ProgressAtEnd)
    /\ [][Progress' > Progress]_vars

\* A run aborted by a fatal fetch failure, its browser closed.
C4_Witness == pc = "done" /\ cleanups = 1 /\ browser = "closed" /\ fetched = "raised"

\* ------------------------------------------ the extractor on one container
\* extract_match_data has been called on the one container of the page.
Extracted == Len(page) = 1 /\ idx = 1

\* It returned a record.
Produced == Extracted /\ Len(matches) = 1

NonEmptyTeams(m) == m.teams.home # <<>> /\ m.teams.away # <<>>

\* Fewer than two name elements, or one of the two names without text or
\* with text that cleans to nothing.
BadIdentity(c) ==
    \/ Len(c.names) < 2
    \/ \E k \in {1, 2} :
          \/ c.names[k] = NoText
          \/ clean_text(c.names[k]) = <<>>

\* ---------------------------------------------------------------------- C5
\* C5: every record returned by extract_match_data, and every record of a
\* written payload, has non-empty home and away names; a container with
\* fewer than two name elements, or with a name that is missing or cleans to
\* empty, gives no record and counts in none of the payload's totals.
C5_TeamIdentity ==
    /\ \A k \in 1..Len(matches) : NonEmptyTeams(matches[k])
    /\ \A w \in 1..Len(written) :
          \A k \in 1..Len(written[w].matches) : NonEmptyTeams(written[w].matches[k])
    /\ (Extracted /\ BadIdentity(page[1])) =>
          /\ matches = <<>>
          /\ \A w \in 1..Len(written) : written[w] = EmptyPayload

\* Two names with text, one of which cleans to nothing: no record, and the
\* payload written without it.
C5_Witness ==
    /\ Extracted /\ Len(page[1].names) >= 2
    /\ Truthy(page[1].names[1]) /\ Truthy(page[1].names[2])
    /\ BadIdentity(page[1])
    /\ page[1].throws = {}
    /\ written = <<EmptyPayload>>

\* ---------------------------------------------------------------------- C6
Complete(cat) == \A f \in DOMAIN cat : cat[f] # <<>>

AnyCategoryComplete(odds) ==
    Complete(odds.match_odds) \/ Complete(odds.over_under) \/ Complete(odds.btts)

\* C6 as claimed: a record has has_odds = true exactly when at least one odds
\* category has all of its sub-fields non-empty.
C6_AsClaimed ==
    \A k \in 1..Len(matches) :
       matches[k].has_odds <=> AnyCategoryComplete(matches[k].odds)

\* ---------------------------------------------------------------------- C7
\* The odds read off the flat anchor list by position.
PositionalOdds(c) ==
    LET all == AllOdds(c)
        txt(k) == clean_text(all[k])
    IN [ match_odds |-> [home |-> txt(1), draw |-> txt(2), away |-> txt(3)],
         over_under |-> [over |-> txt(4), under |-> txt(5)],
         btts       |-> [yes |-> txt(6), no |-> txt(7)] ]

\* The fields a category gets from its own section: the cleaned text of the
\* section's cells.
SectionFields(cells, need) ==
    [k \in 1..need |-> clean_text(cells[k])]

AsTuple(cat, fields) == [k \in 1..Len(fields) |-> cat[fields[k]]]

NoOddsRaise(c) == c.throws \cap OddsSites = {}

\* Below seven anchors nothing comes from the flat positions: every field is
\* empty or the text of its own section's cell, and when no odds lookup raises
\* a category is filled exactly when its section has its minimum of cells.
FromSectionsOnly(c, odds) ==
    LET mo == AsTuple(odds.match_odds, <<"home", "draw", "away">>)
        ou == AsTuple(odds.over_under, <<"over", "under">>)
        bt == AsTuple(odds.btts, <<"yes", "no">>)
        own(vals, cells, need) ==
           /\ \A k \in 1..need :
                 vals[k] # <<>> => Len(cells) >= need /\ vals[k] = SectionFields(cells, need)[k]
           /\ NoOddsRaise(c) =>
                 vals = IF Len(cells) >= need THEN SectionFields(cells, need)
                        ELSE [k \in 1..need |-> <<>>]
    IN /\ own(mo, c.mo, MatchOddsMin)
       /\ own(ou, c.ou, OverUnderMin)
       /\ own(bt, c.bt, BttsMin)

\* C7 as claimed: with at least 7 odds anchors the three categories are the
\* texts at positions 0-2, 3-4 and 5-6 and Tier B is not attempted; with fewer
\* than 7 nothing is taken by position and Tier B is attempted.
C7_AsClaimed ==
    Produced =>
       IF Len(AllOdds(page[1])) >= TierAMin
       THEN matches[1].odds = PositionalOdds(page[1])
       ELSE FromSectionsOnly(page[1], matches[1].odds)

\* C7 amended: with at least 7 odds anchors, each category whose cells are all
\* read without an exception is the texts at its positions (0-2, 3-4, 5-6), a
\* category with a read that raises stays empty, and Tier B is not attempted;
\* with fewer than 7 nothing is taken by position and Tier B is attempted.
C7_TierSelection ==
    Produced =>
       LET c == page[1]
           r == matches[1]
           ok(ks) == \A k \in ks : ~Raises(c, <<"wtocell", "text", k>>)
           empty(cat) == \A f \in DOMAIN cat : cat[f] = <<>>
       IN IF Len(AllOdds(c)) >= TierAMin
          THEN /\ r.has_odds
               /\ IF ok({0, 1, 2}) THEN r.odds.match_odds = PositionalOdds(c).match_odds
                                   ELSE empty(r.odds.match_odds)
               /\ IF ok({3, 4}) THEN r.odds.over_under = PositionalOdds(c).over_under
                                ELSE empty(r.odds.over_under)
               /\ IF ok({5, 6}) THEN r.odds.btts = PositionalOdds(c).btts
                                ELSE empty(r.odds.btts)
          ELSE FromSectionsOnly(c, r.odds)

\* Seven anchors of which the last lies outside the BTTS section, read by
\* position, in a container where reading a match-odds anchor raises.
C7_Witness ==
    /\ Produced
    /\ Len(AllOdds(page[1])) >= TierAMin
    /\ Raises(page[1], <<"wtocell", "text", 1>>)
    /\ matches[1].odds.match_odds.home = <<>>
    /\ matches[1].odds.btts.no = <<"e", "1">>

\* ---------------------------------------------------------------------- C8
\* The lookups of one Tier B category.
CategorySites(sel, need) ==
    {<<sel, "count", 0>>} \cup {<<sel, "text", k>> : k \in 0..(need - 1)}

\* C8 as claimed: in Tier B each category is filled from its own section
\* exactly when that section has its minimum of cells (3 / 2 / 2), whatever
\* happens to the other two categories, lookups that raise included.
C8_AsClaimed ==
    (Produced /\ Len(AllOdds(page[1])) < TierAMin) =>
       LET c == page[1]
           r == matches[1]
           own(vals, sel, cells, need) ==
              c.throws \cap CategorySites(sel, need) = {} =>
                 vals = IF Len(cells) >= need THEN SectionFields(cells, need)
                        ELSE [k \in 1..need |-> <<>>]
       IN /\ own(AsTuple(r.odds.match_odds, <<"home", "draw", "away">>),
                 "wtmo", c.mo, MatchOddsMin)
          /\ own(AsTuple(r.odds.over_under, <<"over", "under">>),
                 "wtou", c.ou, OverUnderMin)
          /\ own(AsTuple(r.odds.btts, <<"yes", "no">>), "wtbt", c.bt, BttsMin)

\* ---------------------------------------------------------------------- C9
RECURSIVE SymbolsOf(_)
SymbolsOf(markers) ==
    IF markers = <<>> THEN <<>>
    ELSE (IF "last5w" \in Head(markers) THEN <<"W">>
          ELSE IF "last5d" \in Head(markers) THEN <<"D">>
          ELSE IF "last5l" \in Head(markers) THEN <<"L">> ELSE <<>>)
         \o SymbolsOf(Tail(markers))

FirstN(seq, n) == SubSeq(seq, 1, IF Len(seq) < n THEN Len(seq) ELSE n)

\* C9 as claimed: form.home is the outcomes of the first (up to 5) markers of
\* the left-side container and form.away those of the right-side container,
\* also when a side has fewer than 5 markers.
C9_AsClaimed ==
    (Produced /\ page[1].throws \cap FormSites = {}) =>
       /\ matches[1].form.home = SymbolsOf(FirstN(page[1].formL, FormSide))
       /\ matches[1].form.away = SymbolsOf(FirstN(page[1].formR, FormSide))

\* --------------------------------------------------------------------- C10
\* C10 as claimed: when the two team names were read, a lookup that raises or
\* gives no text for another field leaves that field empty and the record is
\* still returned, with the scalar fields whose lookups did not raise.
C10_AsClaimed ==
    (Extracted /\ ~BadIdentity(page[1]) /\ page[1].throws \cap IdentitySites = {}) =>
       LET c == page[1]
           quiet(sel) == \A s \in c.throws : s[1] # sel
       IN /\ Len(matches) = 1
          /\ quiet("wtstk") => matches[1].prediction.stake = ScalarText(c.stake)
          /\ quiet("wtprd") => matches[1].prediction.type = ScalarText(c.ptype)
          /\ quiet("wtsc") => matches[1].prediction.score = ScalarText(c.score)

\* --------------------------------------------------------------------- C11
\* C11 as claimed: every run has written the payload exactly once when it
\* ends.
C11_AsClaimed == pc = "done" => Len(written) = 1

\* C11 amended: every run calls save_data exactly once, with the extracted
\* records on the path without a fatal failure and with the empty list in
\* run's handler, so the payload is written at most once: once, and it is
\* the summary of that list, unless the write failed; a payload that was
\* written is never replaced.
C11_WrittenOnce ==
    /\ [](Len(save_calls) <= 1)
    /\ [](pc \in {"cleanup", "done"} => Len(save_calls) = 1)
    /\ [](written \in {<<>>} \cup {<<Summary(save_calls[k])>> : k \in 1..Len(save_calls)})
    /\ []((pc = "done" /\ ~Fatal) => save_calls = <<matches>>)
    /\ []((pc = "done" /\ Fatal) => save_calls = << <<>> >>)
    /\ [][written # <<>> => written' = written]_vars

\* A run that extracted two records and wrote them, once.
C11_Witness ==
    /\ pc = "done" /\ Len(matches) = 2
    /\ written = <<Summary(matches)>>
    /\ save_calls = <<matches>>

\* --------------------------------------------------------------------- C12
\* C12 as claimed: every run ends with exactly one line in the log, a success
\* line whose count is total_matches of the payload written, or a failure
\* line with a reason.
C12_AsClaimed ==
    pc = "done" =>
       /\ Len(log) = 1
       /\ IF log[1].success
          THEN Len(written) = 1 /\ log[1].count = written[1].total_matches
          ELSE log[1].reason # ""

\* C12 amended: every run calls log_result exactly once, so the log gets at
\* most one line: that line, unless its append failed.  A success line is
\* asked for only when the payload with the extracted records was written, and
\* carries its total_matches (at least 1); a failure line carries a reason.
C12_OneLogLine ==
    /\ Len(log_calls) <= 1
    /\ pc \in {"cleanup", "done"} => Len(log_calls) = 1
    /\ log \in {<<>>, log_calls}
    /\ \A k \in 1..Len(log_calls) :
          IF log_calls[k].success
          THEN /\ written = <<Summary(matches)>>
               /\ log_calls[k].count = written[1].total_matches
               /\ log_calls[k].count >= 1
          ELSE log_calls[k].reason # ""

\* A run that wrote two records and logged the success line with count 2.
C12_Witness ==
    /\ pc = "done"
    /\ log = <<SuccessLine(2)>>
    /\ Len(written) = 1 /\ written[1].total_matches = 2

\* --------------------------------------------------------------------- C13
\* The attempt that is under way ends now, in this way.
EndsWith(kind) == outcomes' = Append(outcomes, kind)

\* What swallowing a failure does: the next attempt, nothing raised.
NextAttempt ==
    /\ attempt' = attempt + 1
    /\ pc' = "attempt"
    /\ fetched' = "pending"
    /\ error' = error

\* fetch_page raises msg.
Fatally(msg) == fetched' = "raised" /\ pc' = "except" /\ error' = msg

\* C13: a response with status 403 or >= 400 ends the attempt without the
\* content being checked; on a non-final attempt the next attempt follows and
\* only on the final attempt does fetch_page raise.  An attempt that reaches
\* the container count and finds containers makes fetch_page return True
\* whatever the earlier attempts did, and the run that then saves its records
\* logs a success with their number.
C13_BadStatusRetry ==
    /\ [][\A st \in {"403", "500"} :
             (pc = "goto" /\ EndsWith(st)) =>
                /\ found' = -1 /\ page' = page /\ cooldowns' = cooldowns
                /\ IF attempt < max_retries - 1
                   THEN NextAttempt
                   ELSE Fatally(IF st = "403" THEN "403 Forbidden after 3 attempts"
                                ELSE "HTTP 500 after 3 attempts")]_vars
    /\ [][(pc = "content" /\ found' > 0) =>
             fetched' = "True" /\ pc' = "scrape" /\ EndsWith("loaded")]_vars
    /\ [](fetched = "raised" => attempt = max_retries - 1)
    /\ []((pc = "done" /\ fetched = "True" /\ saved = "True" /\ matches # <<>>) =>
             /\ written = <<Summary(matches)>>
             /\ log_calls = <<SuccessLine(Len(matches))>>)

\* 403, 403, then a page with two complete containers: two records with odds
\* and five form results a side, saved and logged as a success.
C13_Witness ==
    /\ pc = "done"
    /\ outcomes = <<"403", "403", "loaded">>
    /\ page = <<GoodContainer, GoodContainer>>
    /\ Len(matches) = 2
    /\ \A k \in 1..2 : /\ matches[k].has_odds
                       /\ Len(matches[k].form.home) = 5
                       /\ Len(matches[k].form.away) = 5
    /\ written = <<Summary(matches)>>
    /\ log = <<SuccessLine(2)>>

\* --------------------------------------------------------------------- C14
\* C14: a timeout of the navigation, of the content-loaded wait or of the
\* network wait after a challenge is swallowed on a non-final attempt, which
\* the next attempt follows; on the final attempt fetch_page raises.
C14_TimeoutRetry ==
    /\ [][(pc \in {"goto", "wait_dom", "wait_idle"} /\ EndsWith("timeout")) =>
             IF attempt < max_retries - 1
             THEN NextAttempt
             ELSE Fatally("Timeout after 3 attempts")]_vars
    /\ [](error = "Timeout after 3 attempts" =>
             /\ attempt = max_retries - 1
             /\ Len(outcomes) = max_retries
             /\ outcomes[max_retries] = "timeout")

\* The network wait after the challenge of the first attempt timed out; the
\* second attempt loaded the page.
C14_Witness ==
    /\ outcomes = <<"timeout", "loaded">>
    /\ Len(cooldowns) = 1 /\ cooldowns[1].at = 0
    /\ fetched = "True"

\* --------------------------------------------------------------------- C15
\* C15: the k-th backoff sleep is the one before attempt k + 1 and lasts
\* base_delay * 2^(k-1) plus a jitter between 2 and 5; there is none before
\* the first attempt and exactly one before every later attempt, whatever
\* ended the attempt before it; the delays never decrease.
C15_Backoff ==
    /\ \A k \in 1..Len(sleeps) :
          /\ sleeps[k].before = k
          /\ \E j \in JitterMin..JitterMax :
                sleeps[k].delay = base_delay * (2 ^ (k - 1)) + j
    /\ \A k \in 1..(Len(sleeps) - 1) : sleeps[k].delay <= sleeps[k + 1].delay
    /\ pc = "goto" => Len(sleeps) = attempt /\ navs = attempt
    /\ pc = "attempt" => Len(outcomes) = attempt /\ navs = attempt
    /\ Len(sleeps) <= Len(outcomes)
    /\ navs <= Len(sleeps) + 1

\* Zero containers, then an error, then the third attempt under way: the
\* longest first sleep and the shortest second one.
C15_Witness ==
    /\ Len(outcomes) >= 2 /\ outcomes[1] = "zero" /\ outcomes[2] = "error"
    /\ navs = max_retries
    /\ Len(sleeps) = 2
    /\ sleeps[1].delay = base_delay + JitterMax
    /\ sleeps[2].delay = 2 * base_delay + JitterMin

\* --------------------------------------------------------------------- C16
\* C16 as claimed: clean_text is idempotent: cleaning the name that
\* extract_match_data has cleaned gives that name again.
C16_AsClaimed ==
    Produced => clean_text(matches[1].teams.home) = matches[1].teams.home

\* --------------------------------------------------------------------- C17
\* The records of ms whose has_odds is b, counted one by one.
RECURSIVE CountOdds(_, _)
CountOdds(ms, b) ==
    IF ms = <<>> THEN 0
    ELSE (IF Head(ms).has_odds = b THEN 1 ELSE 0) + CountOdds(Tail(ms), b)

\* C17: in every payload written, total_matches is the number of its records,
\* matches_with_odds the number of those with has_odds = true,
\* matches_without_odds the number of those with has_odds = false, the two add
\* up to total_matches, and the records are those save_data was given,
\* unchanged and in their order.
C17_PayloadCounts ==
    \A w \in 1..Len(written) :
       LET p == written[w]
       IN /\ p.total_matches = Len(p.matches)
          /\ p.matches_with_odds = CountOdds(p.matches, TRUE)
          /\ p.matches_without_odds = CountOdds(p.matches, FALSE)
          /\ p.total_matches = p.matches_with_odds + p.matches_without_odds
          /\ p.matches \in {save_calls[k] : k \in 1..Len(save_calls)}
          /\ pc \in {"log", "cleanup", "done"} /\ error = "" => p.matches = matches

\* A payload of two records, one with odds and one without.
C17_Witness ==
    /\ Len(written) = 1
    /\ written[1].total_matches = 2
    /\ written[1].matches_with_odds = 1
    /\ written[1].matches_without_odds = 1

\* --------------------------------------------------------------------- C18
OutcomeClasses == {"last5w", "last5d", "last5l"}

\* The markers at positions from..to (0-based) of the list the form selector
\* gives whose class names an outcome.
WithOutcome(flat, from, to) ==
    {k \in from..to : k < Len(flat) /\ flat[k + 1] \cap OutcomeClasses # {}}

\* C18: form.home and form.away of a record have at most 5 entries, each of
\* them W, D or L, and no entry comes from a marker whose class names none of
\* the three outcomes: a sequence has as many entries as there are markers
\* with an outcome class among those read for it, or none.
C18_FormEntries ==
    Produced =>
       LET f == matches[1].form
           flat == AllForm(page[1])
           quiet == page[1].throws \cap FormSites = {}
           wellFormed(seq) ==
              /\ Len(seq) <= FormSide
              /\ \A k \in 1..Len(seq) : seq[k] \in {"W", "D", "L"}
       IN /\ wellFormed(f.home)
          /\ wellFormed(f.away)
          /\ Len(f.home) <= Cardinality(WithOutcome(flat, 0, FormSide - 1))
          /\ Len(f.away) <= Cardinality(WithOutcome(flat, FormSide, FormBoth - 1))
          /\ (quiet /\ Len(flat) >= FormSide) =>
                Len(f.home) = Cardinality(WithOutcome(flat, 0, FormSide - 1))
          /\ (quiet /\ Len(flat) >= FormBoth) =>
                Len(f.away) = Cardinality(WithOutcome(flat, FormSide, FormBoth - 1))

\* Ten markers, of which three of the first five and three of the last five
\* name an outcome.
C18_Witness ==
    /\ Produced
    /\ Len(AllForm(page[1])) = FormBoth
    /\ matches[1].form.home = <<"W", "L", "W">>
    /\ matches[1].form.away = <<"W", "L", "W">>

\* --------------------------------------------------------------------- C19
\* C19: within an attempt the content-loaded wait follows the navigation, the
\* challenge check follows that wait, and the container count follows the
\* challenge check: at once and without a cooldown when there is no marker,
\* and else after a cooldown of 15 seconds followed by the wait for the network
\* to go idle.  There is no cooldown in any other place, at most one in an
\* attempt, and the containers are counted nowhere else.
C19_AttemptOrder ==
    /\ [][pc' = "wait_dom" => pc = "goto" /\ navs' = navs + 1]_vars
    /\ [][pc' = "challenge" => pc = "wait_dom"]_vars
    /\ [][pc' = "cooldown" => pc = "challenge" /\ cooldowns' = cooldowns]_vars
    /\ [][pc' = "wait_idle" =>
             /\ pc = "cooldown"
             /\ cooldowns' = Append(cooldowns, [at |-> attempt, seconds |-> 15])]_vars
    /\ [][pc' = "content" =>
             \/ pc = "challenge" /\ cooldowns' = cooldowns
             \/ pc = "wait_idle" /\ cooldowns' = cooldowns
                /\ cooldowns # <<>> /\ cooldowns[Len(cooldowns)].at = attempt]_vars
    /\ [][cooldowns' # cooldowns => pc = "cooldown"]_vars
    /\ [][(found' # found /\ found' >= 0) => pc = "content"]_vars
    /\ [][pc' \in {"wait_dom", "challenge", "cooldown", "wait_idle", "content"} =>
             attempt' = attempt /\ navs' = attempt + 1]_vars
    /\ [](\A j, k \in 1..Len(cooldowns) : j < k => cooldowns[j].at < cooldowns[k].at)

\* A first attempt that met the challenge, cooled down and then found
\* containers.
C19_Witness ==
    /\ pc = "scrape" /\ fetched = "True" /\ navs = 1 /\ found > 0
    /\ cooldowns = <<[at |-> 0, seconds |-> 15]>>

\* --------------------------------------------------------------------- C20
\* The records of the first n containers of a page, in their order.
RECURSIVE RecordsOf(_, _)
RecordsOf(dom, n) ==
    IF n = 0 THEN <<>>
    ELSE RecordsOf(dom, n - 1) \o extract_match_data(dom[n])

\* C20: the containers are extracted one at a time in document order, every
\* extraction adding its record, if it gives one, at the end of the list; a
\* container that gives no record (rejected, or a lookup raised) does not end
\* the loop: once the loop has started it goes through every container, and
\* the list is then the records of the containers that gave one, in container
\* order.
C20_BatchOrder ==
    /\ [][idx' # idx =>
             \/ idx' = 0 /\ matches' = <<>> /\ pc = "scrape"
             \/ /\ pc = "extract" /\ idx' = idx + 1
                /\ matches' = matches \o extract_match_data(page[idx'])
                /\ pc' = IF idx' < Len(page) THEN "extract" ELSE "save"]_vars
    /\ [][matches' # matches => idx' # idx \/ pc = "scrape"]_vars
    /\ [](matches = RecordsOf(page, idx))
    /\ []((pc \notin {"scrape", "extract"} /\ idx > 0) => idx = Len(page))

\* A page whose first container is discarded because its stake lookup raises:
\* the second one is extracted and saved all the same.
C20_Witness ==
    /\ page = <<StakeRaisesContainer, FiveOddsContainer>>
    /\ idx = 2
    /\ matches = extract_match_data(FiveOddsContainer)
    /\ Len(matches) = 1
    /\ written = <<Summary(matches)>>

\* --------------------------------------------------------------------- C21
\* setup_browser raised: its exception is on its way to run's handler or has
\* been handled there.
SetupFailed == error = "browser setup failed"

\* C21: when setup_browser raises, the run is aborted before any fetch attempt:
\* it goes from setup_browser straight to run's handler and on to cleanup, and
\* in that run no attempt of fetch_page is started, no navigation, backoff
\* sleep or challenge cooldown is made, and nothing is counted or extracted.
C21_SetupAborts ==
    /\ [](SetupFailed =>
            /\ pc \in {"except", "cleanup", "done"}
            /\ navs = 0 /\ sleeps = <<>> /\ cooldowns = <<>>
            /\ attempt = 0 /\ outcomes = <<>> /\ fetched = "pending"
            /\ found = -1 /\ page = <<>> /\ idx = 0 /\ matches = <<>>)
    /\ [][(pc = "setup_browser" /\ pc' # "initial_delay") =>
             (SetupFailed' /\ pc' = "except")]_vars
    /\ [][pc = "setup_browser" => (SetupFailed' <=> pc' = "except")]_vars

\* A run that ended after launch() raised: no browser, no navigation.
C21_Witness ==
    /\ pc = "done" /\ SetupFailed /\ browser = "None"
    /\ navs = 0 /\ sleeps = <<>> /\ matches = <<>> /\ cleanups = 1

\* --------------------------------------------------------------------- C22
\* The positions of one attempt of fetch_page, in order.
FetchOrder ==
    << "attempt", "goto", "wait_dom", "challenge", "cooldown", "wait_idle", "content" >>

InFetch == \E k \in 1..Len(FetchOrder) : FetchOrder[k] = pc

FetchIndex == CHOOSE k \in 1..Len(FetchOrder) : FetchOrder[k] = pc

\* The most steps run can take once fetch_page has returned: the count, one
\* step for each container, save_data, log_result and cleanup.
AfterFetch == MaxContainers + 4

\* The most steps the run can still take from where it is.
StepsLeft ==
    CASE pc = "setup_browser" -> 2 + max_retries * Len(FetchOrder) + AfterFetch
      [] pc = "initial_delay" -> 1 + max_retries * Len(FetchOrder) + AfterFetch
      [] InFetch -> (max_retries - 1 - attempt) * Len(FetchOrder)
                    + (Len(FetchOrder) + 1 - FetchIndex) + AfterFetch
      [] pc = "scrape" -> AfterFetch
      [] pc = "extract" -> (Len(page) - idx) + 3
      [] pc = "save" -> 3
      [] pc \in {"log", "except"} -> 2
      [] pc = "cleanup" -> 1
      [] pc = "done" -> 0

\* The step at the run's position can be taken: every navigation, wait and
\* sleep ends, with a result or with its timeout.
CanStep == IF pc = "extract" THEN idx < Len(page) ELSE ENABLED Next

\* C22: every run terminates.  Each navigation, wait and sleep ends with one of
\* its outcomes, so a run that has not ended can always take its next step, and
\* every step lowers the number of steps that are left, which is finite at
\* the start: fetch_page is left after at most max_retries attempts of at most
\* seven steps each, having returned True or raised, and the run then reaches
\* its end, where cleanup has run and no browser is left open.
C22_Terminates ==
    /\ [](pc # "done" => CanStep)
    /\ [](StepsLeft >= 0 /\ (StepsLeft = 0 <=> pc = "done"))
    /\ [][StepsLeft' < StepsLeft]_vars
    /\ [](InFetch => (fetched = "pending" /\ attempt < max_retries))
    /\ [][(InFetch /\ ~InFetch') => fetched' \in {"True", "raised"}]_vars
    /\ [](pc = "done" => (cleanups = 1 /\ browser # "open"))

\* A run that used every attempt and every wait of fetch_page, extracted as
\* many containers as a page holds, and reached its end.
C22_Witness ==
    /\ pc = "done" /\ StepsLeft = 0 /\ browser = "closed"
    /\ Len(outcomes) = max_retries /\ Len(cooldowns) = max_retries
    /\ Len(sleeps) = max_retries - 1 /\ idx = MaxContainers

\* --------------------------------------------------------------------- C23
\* C23: fetch_page never returns False: it returns True or raises, and it is
\* left only from its last attempt or with True.  scrape_matches therefore
\* never takes its `if not success: return []` branch; and when fetch_page has
\* failed the run goes to its handler without calling scrape's count or run's
\* save_data(matches), so the empty list that is saved after a failed fetch
\* is the one run's handler passes to save_data.
C23_NeverFalse ==
    /\ [](fetched \in {"pending", "True", "raised"})
    /\ [](pc = "scrape" => fetched = "True")
    /\ [][(fetched = "pending" /\ fetched' # "pending") =>
            /\ fetched' \in {"True", "raised"}
            /\ fetched' = "raised" =>
                  (attempt = max_retries - 1 /\ pc' = "except" /\ error' # "")
            /\ fetched' = "True" => pc' = "scrape"]_vars
    /\ [](fetched = "raised" =>
            /\ pc \in {"except", "cleanup", "done"}
            /\ saved = "pending" /\ matches = <<>>
            /\ save_calls \in {<<>>, << <<>> >>}
            /\ pc = "except" <=> save_calls = <<>>)

\* A run whose three attempts ended with a timeout: fetch_page raised, and the
\* handler saved the empty list.
C23_Witness ==
    /\ pc = "done" /\ fetched = "raised" /\ attempt = max_retries - 1
    /\ outcomes = <<"timeout", "timeout", "timeout">>
    /\ saved = "pending" /\ save_calls = << <<>> >>

\* --------------------------------------------------------------------- C24
SaveFailedLine == FailureLine("Failed to save data to file")

\* A success line is there only when save_data returned True for a payload
\* that holds at least one record.
SuccessOnlyWhenSaved(lines) ==
    \A k \in 1..Len(lines) :
       lines[k].success =>
          /\ saved = "True"
          /\ written = <<Summary(matches)>>
          /\ Len(matches) >= 1
          /\ lines[k].count = Len(matches)

\* C24 as claimed: a success line is in the log only when the payload was
\* saved and holds at least one record; when save_data returned False the run
\* has written the failure line to the log, no success line, and has called
\* save_data once.
C24_AsClaimed ==
    /\ SuccessOnlyWhenSaved(log)
    /\ (pc \in {"cleanup", "done"} /\ saved = "False") =>
          /\ log = <<SaveFailedLine>>
          /\ Len(save_calls) = 1

\* C24 amended: a success line is asked for, and is in the log, only when the
\* payload was saved and holds at least one record.  When save_data returned
\* False there is no payload, the run calls log_result once, with the failure
\* line that says the save failed, and that line is in the log unless its
\* append failed as well; no success line is asked for or written, and
\* save_data is not called again.
C24_SaveFailure ==
    /\ [](SuccessOnlyWhenSaved(log_calls) /\ SuccessOnlyWhenSaved(log))
    /\ [](saved = "False" =>
            /\ pc \in {"log", "cleanup", "done"}
            /\ written = <<>>
            /\ save_calls = <<matches>>
            /\ log_calls = IF pc = "log" THEN <<>> ELSE <<SaveFailedLine>>
            /\ log \in {<<>>, log_calls})
    /\ [][saved = "False" => UNCHANGED << saved, save_calls, written, matches >>]_vars

\* A run that extracted records, could not save them and logged that.
C24_Witness ==
    /\ pc = "done" /\ saved = "False" /\ Len(matches) >= 1
    /\ written = <<>> /\ save_calls = <<matches>>
    /\ log = <<SaveFailedLine>>

=============================================================================
